---- MODULE Spec2Model ----
(***************************************************************************)
(* dlimp/dataloader.py: make_dataset and _add_traj_metadata.               *)
(*                                                                         *)
(* Trajectories are decoded, enumerated, tagged with _i/_len, flattened to *)
(* steps, and (when traj_transforms_first is false) regrouped with         *)
(* group_by_window under the key _len * 2^51 + _i.                         *)
(***************************************************************************)
EXTENDS Integers, Naturals, Sequences, FiniteSets, TLC

(***************************************************************************)
(* 64-bit integers.  TLC's integers are 32 bits wide, so an int64 tensor   *)
(* is a two's-complement number held as a tuple of 8 limbs of 8 bits, least  *)
(* significant first.                                                      *)
(***************************************************************************)
TRAJ_IDX_ENCODING_BITS == 51

Int64Bits == 64

NumLimbs == Int64Bits \div 8

\* limb j (0-based, weight 256^j) of a
Limb(a, j) == a[j + 1]

\* the int64 whose limb j is f[j]
MkInt64(f) == [n \in 1..NumLimbs |-> f[n - 1]]

\* tf.cast(n, tf.int64) of a non-negative int32 n
CastInt64(n) ==
  MkInt64([j \in 0..(NumLimbs - 1) |->
             IF j < 4 THEN (n \div (256 ^ j)) % 256 ELSE 0])

Zero64 == CastInt64(0)

\* the int64 constant 2**s, 0 <= s < 64
TwoPow64(s) ==
  MkInt64([j \in 0..(NumLimbs - 1) |-> IF j = s \div 8 THEN 2 ^ (s % 8) ELSE 0])

RECURSIVE AddCarry(_, _, _)
AddCarry(a, b, j) ==
  IF j = 0 THEN 0
  ELSE (Limb(a, j - 1) + Limb(b, j - 1) + AddCarry(a, b, j - 1)) \div 256

\* a + b on int64: wraps modulo 2^64
Add64(a, b) ==
  MkInt64([j \in 0..(NumLimbs - 1) |->
             (Limb(a, j) + Limb(b, j) + AddCarry(a, b, j)) % 256])

\* a - b on int64 (used to build inputs next to a power of two)
Sub64(a, b) ==
  Add64(a, Add64([n \in 1..NumLimbs |-> 255 - b[n]], CastInt64(1)))

RECURSIVE MulCol(_, _, _, _)
MulCol(a, b, j, p) ==
  IF p > j THEN 0 ELSE Limb(a, p) * Limb(b, j - p) + MulCol(a, b, j, p + 1)

RECURSIVE MulCarry(_, _, _)
MulCarry(a, b, j) ==
  IF j = 0 THEN 0
  ELSE (MulCol(a, b, j - 1, 0) + MulCarry(a, b, j - 1)) \div 256

\* a * b on int64: wraps modulo 2^64
Mul64(a, b) ==
  MkInt64([j \in 0..(NumLimbs - 1) |->
             (MulCol(a, b, j, 0) + MulCarry(a, b, j)) % 256])

IsNeg64(a) == Limb(a, NumLimbs - 1) >= 128

\* limb j of a, sign-extended past the top limb
SignExt(a, j) ==
  IF j < NumLimbs THEN Limb(a, j) ELSE IF IsNeg64(a) THEN 255 ELSE 0

\* a // 2**s on int64 (tf floor division: rounds towards minus infinity)
FloorDiv64(a, s) ==
  MkInt64([j \in 0..(NumLimbs - 1) |->
     (SignExt(a, j + (s \div 8)) \div (2 ^ (s % 8)))
     + (SignExt(a, j + (s \div 8) + 1) % (2 ^ (s % 8))) * (2 ^ (8 - (s % 8)))])

\* a % 2**s on int64 (tf floormod: the result has the divisor's sign, so >= 0)
FloorMod64(a, s) ==
  MkInt64([j \in 0..(NumLimbs - 1) |->
     IF j < s \div 8 THEN Limb(a, j)
     ELSE IF j = s \div 8 THEN Limb(a, j) % (2 ^ (s % 8))
     ELSE 0])

\* a < b as signed 64-bit numbers
RECURSIVE LtFrom(_, _, _)
LtFrom(a, b, j) ==
  IF Limb(a, j) # Limb(b, j) THEN Limb(a, j) < Limb(b, j)
  ELSE IF j = 0 THEN FALSE ELSE LtFrom(a, b, j - 1)

Lt64(a, b) ==
  IF IsNeg64(a) # IsNeg64(b) THEN IsNeg64(a) ELSE LtFrom(a, b, NumLimbs - 1)

\* the natural number an int64 holds, for values below 2^31
ToNat(a) ==
  Limb(a, 0) + 256 * Limb(a, 1) + 65536 * Limb(a, 2) + 16777216 * Limb(a, 3)

(***************************************************************************)
(* The composite key and its two assertions (_add_traj_metadata, lines     *)
(* 167-174) and the regrouper's key_func / window_size_func (lines 85-87). *)
(***************************************************************************)
\* the key with the cast to int64 left out: the int32 product
\* traj_len * 2**51 wraps to 0 and only the index is left
CompositeKeyNoCast(traj_len, i) == i

\* k = tf.cast(traj_len, tf.int64) * (2**_TRAJ_IDX_ENCODING_BITS) + i
CompositeKey(traj_len, i) ==
  Add64(Mul64(CastInt64(traj_len), TwoPow64(TRAJ_IDX_ENCODING_BITS)), i)

\* tf.assert_equal(k % (2**_TRAJ_IDX_ENCODING_BITS), i)
KeyModOk(k, i) == FloorMod64(k, TRAJ_IDX_ENCODING_BITS) = i

\* tf.assert_equal(k // (2**_TRAJ_IDX_ENCODING_BITS), tf.cast(traj_len, tf.int64))
KeyDivOk(k, traj_len) ==
  FloorDiv64(k, TRAJ_IDX_ENCODING_BITS) = CastInt64(traj_len)

\* the key assertions with the check of k // 2**51 left out
KeyAssertsModOnly(traj_len, i) ==
  IF KeyModOk(CompositeKey(traj_len, i), i) THEN {} ELSE {"key_mod"}

\* the key assertions that fail for (traj_len, i)
KeyAsserts(traj_len, i) ==
  LET k == CompositeKey(traj_len, i)
  IN  (IF KeyModOk(k, i) THEN {} ELSE {"key_mod"})
      \cup (IF KeyDivOk(k, traj_len) THEN {} ELSE {"key_div"})

\* key_func of group_by_window, on a step's _len and _i
KeyFunc(len, i) == CompositeKey(len, i)

\* window_size_func (and the batch size of reduce_func): k // 2**51
WindowSize(k) == FloorDiv64(k, TRAJ_IDX_ENCODING_BITS)

(***************************************************************************)
(* Tensors and records.  A tensor is a scalar (rank 0, one value) or has a *)
(* leading dimension (rank 1, a sequence of per-step values).  A record is *)
(* a dict: a function from field names to tensors.                         *)
(***************************************************************************)
Scalar(v) == [rank |-> 0, val |-> <<v>>]

Vector(s) == [rank |-> 1, val |-> s]

None == -1

\* traj_lens = {k: tf.shape(v)[0] if len(v.shape) > 0 else None ...}
TrajLens(x) ==
  [k \in DOMAIN x |-> IF x[k].rank > 0 THEN Len(x[k].val) ELSE None]

\* tf.reduce_max over a non-empty list of lengths
ReduceMax(S) == CHOOSE m \in S : \A n \in S : n <= m

\* traj_len = tf.reduce_max([l for l in traj_lens.values() if l is not None])
CanonicalLen(x) ==
  ReduceMax({TrajLens(x)[k] : k \in {f \in DOMAIN x : TrajLens(x)[f] # None}})

\* tf.repeat(s, n, axis=0) on a sequence: every element n times, in place
Repeat(s, n) == [j \in 1..(Len(s) * n) |-> s[((j - 1) \div n) + 1]]

\* the loop body of lines 156-165 for one field: <<value, length>> after it
BroadcastField(t, traj_len) ==
  LET l0 == IF t.rank > 0 THEN Len(t.val) ELSE None
      v1 == IF l0 = None THEN Repeat(t.val, traj_len) ELSE t.val
      l1 == IF l0 = None THEN traj_len ELSE l0
      v2 == IF l1 = 1 THEN Repeat(v1, traj_len) ELSE v1
      l2 == IF l1 = 1 THEN traj_len ELSE l1
  IN  [val |-> v2, len |-> l2]

\* the length assertion never run (not wired into the returned tensors)
LensEqualOkUnchecked(x, traj_len) == TRUE

\* tf.assert_equal(tf.size(tf.unique(tf.stack(list(traj_lens.values()))).y), 1)
LensEqualOk(x, traj_len) ==
  Cardinality({BroadcastField(x[k], traj_len).len : k \in DOMAIN x}) = 1

\* the tagged dict with the broadcast values not written back to x
TaggedDictNoBroadcast(i, x, traj_len) ==
  [k \in DOMAIN x \cup {"_i", "_len"} |->
     IF k = "_i" THEN Vector(Repeat(<<i>>, traj_len))
     ELSE IF k = "_len" THEN Vector(Repeat(<<traj_len>>, traj_len))
     ELSE Vector(x[k].val)]

\* the dict returned at line 182 when every assertion passes
TaggedDict(i, x, traj_len) ==
  [k \in DOMAIN x \cup {"_i", "_len"} |->
     IF k = "_i" THEN Vector(Repeat(<<i>>, traj_len))
     ELSE IF k = "_len" THEN Vector(Repeat(<<traj_len>>, traj_len))
     ELSE Vector(BroadcastField(x[k], traj_len).val)]

\* the two Python asserts compiled away
ReservedFieldsOff(x) == {}

\* the two Python asserts of lines 176-177 (they run when the map is traced;
\* the first that fails raises)
ReservedFields(x) ==
  IF "_i" \in DOMAIN x THEN {"reserved_i"}
  ELSE IF "_len" \in DOMAIN x THEN {"reserved_len"}
  ELSE {}

NoDict == <<>>

\* _add_traj_metadata(i, x): the failed checks and, when none failed, the
\* tagged dict.  A record with no non-scalar field has no length to take the
\* maximum of and fails while the function is traced.
AddTrajMetadata(i, x) ==
  IF \A k \in DOMAIN x : x[k].rank = 0
  THEN [err |-> {"no_length"}, x |-> NoDict]
  ELSE IF ReservedFields(x) # {}
  THEN [err |-> ReservedFields(x), x |-> NoDict]
  ELSE LET traj_len == CanonicalLen(x)
           failed == (IF LensEqualOk(x, traj_len) THEN {} ELSE {"len_eq"})
                     \cup KeyAsserts(traj_len, i)
       IN  [err |-> failed,
            x |-> IF failed = {} THEN TaggedDict(i, x, traj_len) ELSE NoDict]

\* the common leading length of a dict whose fields all have one
LeadingLen(x) == IF DOMAIN x = {} THEN 0 ELSE Len(x[CHOOSE k \in DOMAIN x : TRUE].val)

\* dataset.unbatch() on one dict: its steps, in order
Unbatch(x) ==
  [n \in 1..LeadingLen(x) |-> [k \in DOMAIN x |-> x[k].val[n]]]

\* d.batch(n) on the steps of one window: one dict per n steps (a last,
\* shorter batch is kept: drop_remainder is not set)
RECURSIVE Batch(_, _)
Batch(steps, n) ==
  IF steps = <<>> THEN <<>>
  ELSE LET m == IF Len(steps) < n THEN Len(steps) ELSE n
       IN  <<[k \in DOMAIN steps[1] |->
                Vector([j \in 1..m |-> steps[j][k]])]>>
           \o Batch(SubSeq(steps, m + 1, Len(steps)), n)

(***************************************************************************)
(* Stream elements.  An element in flight carries its payload x (a dict, a *)
(* step, or the pair (i, x) of enumerate), the failed checks of the map    *)
(* function that produced it, and whether its worker has finished.  id,    *)
(* pos and log are bookkeeping: the position of its trajectory in the raw  *)
(* stream (0-based), its step position (0 for a whole trajectory), and the *)
(* stages it has passed.                                                   *)
(***************************************************************************)
Elem(id, pos, i, x, log) ==
  [id |-> id, pos |-> pos, i |-> i, x |-> x, log |-> log,
   done |-> FALSE, err |-> {}]

RemoveAt(s, n) == SubSeq(s, 1, n - 1) \o SubSeq(s, n + 1, Len(s))

\* _get_type_spec: the rank of every field of the first record
GetTypeSpec(example) == [k \in DOMAIN example |-> example[k].rank]

\* _decode_example: the fields of type_spec, each checked by ensure_shape
DecodeExample(example, type_spec) ==
  IF \E k \in DOMAIN type_spec :
       k \notin DOMAIN example \/ example[k].rank # type_spec[k]
  THEN [err |-> {"shape"}, x |-> NoDict]
  ELSE [err |-> {}, x |-> [k \in DOMAIN type_spec |-> example[k]]]

\* unbatch of one trajectory element: its steps, in order
UnbatchElem(e) ==
  [n \in 1..LeadingLen(e.x) |->
     Elem(e.id, n, e.i, Unbatch(e.x)[n], Append(e.log, "flat"))]

(***************************************************************************)
(* group_by_window (lines 84-88).  groups maps every open key to the steps *)
(* buffered for it.                                                        *)
(***************************************************************************)
\* a key made of the length alone
StepKeyLenOnly(e) == KeyFunc(e.x["_len"], Zero64)

\* key_func on one step
StepKey(e) == KeyFunc(e.x["_len"], e.x["_i"])

\* reduce_func on the steps of one window of key k: d.batch(k // 2**51)
ReduceWindow(k, buf) ==
  LET dicts == Batch([n \in 1..Len(buf) |-> buf[n].x], ToNat(WindowSize(k)))
  IN  [n \in 1..Len(dicts) |->
         Elem(buf[1].id, 0, buf[1].i, dicts[n], Append(buf[1].log, "group"))]

\* one step arrives: it joins its key's buffer, and a buffer that reaches
\* window_size_func(key) steps is reduced and closed.  A window size <= 0
\* is an error of the primitive.
GroupAddAt(g, e, k, size) ==
  LET buf == Append(IF k \in DOMAIN g THEN g[k] ELSE <<>>, e)
  IN  IF ~Lt64(Zero64, size)
      THEN [err |-> {"window_size"}, groups |-> g, out |-> <<>>]
      ELSE IF CastInt64(Len(buf)) = size
      THEN [err |-> {},
            groups |-> [q \in (DOMAIN g) \ {k} |-> g[q]],
            out |-> ReduceWindow(k, buf)]
      ELSE [err |-> {},
            groups |-> [q \in (DOMAIN g) \cup {k} |-> IF q = k THEN buf ELSE g[q]],
            out |-> <<>>]

GroupAdd(g, e) ==
  CHOOSE r \in {GroupAddAt(g, e, k, WindowSize(k)) : k \in {StepKey(e)}} : TRUE

\* the input has ended: the buffer of open key k is reduced as it stands
GroupFlush(g, k) ==
  [groups |-> [q \in (DOMAIN g) \ {k} |-> g[q]], out |-> ReduceWindow(k, g[k])]

NoGroups == <<>>

(***************************************************************************)
(* State.  k*: the key computation on its own; t*: one call of             *)
(* _add_traj_metadata followed by unbatch; w*: group_by_window on its own; *)
(* the rest: the pipeline built by make_dataset.                           *)
(***************************************************************************)
VARIABLES kI, kLen, kPc, kKey, kErr, kWin, kSteps,
          tI, tX, tPc, tRes, tSteps,
          wSrc, wPend, wGroups, wOut, wPc,
          first, input, pc, inS, win, flat, enum, groups, gEnded,
          flatS, fedS, trajCount, outCount, lastOut

keyVars == <<kI, kLen, kPc, kKey, kErr, kWin, kSteps>>

tagVars == <<tI, tX, tPc, tRes, tSteps>>

winVars == <<wSrc, wPend, wGroups, wOut, wPc>>

ghostVars == <<flatS, fedS, trajCount, outCount, lastOut>>

pipeVars == <<first, input, pc, inS, win, flat, enum, groups, gEnded,
              ghostVars>>

vars == <<keyVars, tagVars, winVars, pipeVars>>

KeyIdle ==
  /\ kI = Zero64 /\ kLen = 0 /\ kPc = "idle" /\ kKey = Zero64
  /\ kErr = {} /\ kWin = Zero64 /\ kSteps = 0

TagIdle ==
  /\ tI = Zero64 /\ tX = NoDict /\ tPc = "idle"
  /\ tRes = [err |-> {}, x |-> NoDict] /\ tSteps = <<>>

WinIdle ==
  /\ wSrc = <<>> /\ wPend = <<>> /\ wGroups = NoGroups /\ wOut = <<>>
  /\ wPc = "idle"

NoElem == Elem(0, 0, Zero64, NoDict, <<>>)

PipeIdle ==
  /\ first = FALSE /\ input = <<>> /\ pc = "idle"
  /\ inS = <<>> /\ win = <<>> /\ flat = <<>>
  /\ enum = 0 /\ groups = NoGroups /\ gEnded = FALSE
  /\ flatS = <<>> /\ fedS = <<>> /\ trajCount = <<>>
  /\ outCount = <<>> /\ lastOut = NoElem

(***************************************************************************)
(* SpecKey: the key of lines 167-174 and 85-87 on indices and lengths next *)
(* to the limits of the encoding.                                          *)
(***************************************************************************)
KeySpread == 2

MaxInt32 == 2147483647

\* enumerate() counts from 0 in int64: indices are 0 .. 2^63 - 1
IdxInputs ==
  {CastInt64(d) : d \in 0..KeySpread}
  \cup {Sub64(TwoPow64(e), CastInt64(d)) : e \in {51, 52, 63}, d \in 1..KeySpread}
  \cup {Add64(TwoPow64(e), CastInt64(d)) : e \in {51, 52, 62}, d \in 0..KeySpread}

\* tf.shape gives an int32 length: 0 .. 2^31 - 1
LenInputs ==
  (0..KeySpread)
  \cup {(2 ^ e) + d : e \in {12, 13, 20}, d \in (0 - KeySpread)..KeySpread}
  \cup {MaxInt32 - d : d \in 0..KeySpread}

InitKey ==
  /\ kI \in IdxInputs
  /\ kLen \in LenInputs
  /\ kPc = "input"
  /\ kKey = Zero64 /\ kErr = {} /\ kWin = Zero64 /\ kSteps = 0
  /\ TagIdle /\ PipeIdle /\ WinIdle

\* lines 167-182 for a record of canonical length kLen and index kI: the
\* key, its assertions, and the kLen steps the tagged record unbatches to
KeyTag ==
  /\ kPc = "input"
  /\ kKey' = CompositeKey(kLen, kI)
  /\ kErr' = KeyAsserts(kLen, kI)
  /\ kPc' = IF KeyAsserts(kLen, kI) = {} THEN "tagged" ELSE "rejected"
  /\ kSteps' = IF KeyAsserts(kLen, kI) = {} THEN kLen ELSE 0
  /\ UNCHANGED <<kI, kLen, kWin, tagVars, pipeVars, winVars>>

\* lines 85-87 on one emitted step: key_func on its _len and _i, then
\* window_size_func on that key
KeyRegroup ==
  /\ kPc = "tagged"
  /\ kSteps > 0
  /\ kKey' = KeyFunc(kLen, kI)
  /\ kWin' = WindowSize(KeyFunc(kLen, kI))
  /\ kPc' = "windowed"
  /\ UNCHANGED <<kI, kLen, kErr, kSteps, tagVars, pipeVars, winVars>>

NextKey == KeyTag \/ KeyRegroup

SpecKey == InitKey /\ [][NextKey]_vars

(***************************************************************************)
(* SpecTag: _add_traj_metadata on one record, then unbatch.                *)
(***************************************************************************)
MaxFieldLen == 3

TagValues == {1, 2}

TagTensors ==
  {Scalar(v) : v \in TagValues}
  \cup {Vector(s) : s \in UNION {[1..m -> TagValues] : m \in 0..MaxFieldLen}}

TagDomains == {{"obs"}, {"obs", "act"}, {"obs", "_i"}, {"obs", "_len"}}

TagRecords == UNION {[D -> TagTensors] : D \in TagDomains}

TagIdx ==
  {CastInt64(0), CastInt64(1),
   Sub64(TwoPow64(TRAJ_IDX_ENCODING_BITS), CastInt64(1)),
   TwoPow64(TRAJ_IDX_ENCODING_BITS)}

InitTag ==
  /\ tI \in TagIdx
  /\ tX \in TagRecords
  /\ tPc = "input"
  /\ tRes = [err |-> {}, x |-> NoDict]
  /\ tSteps = <<>>
  /\ KeyIdle /\ PipeIdle /\ WinIdle

\* dataset.enumerate().map(_add_traj_metadata) on one element (line 70)
TagRecord ==
  /\ tPc = "input"
  /\ tRes' = AddTrajMetadata(tI, tX)
  /\ tPc' = IF AddTrajMetadata(tI, tX).err = {} THEN "tagged" ELSE "rejected"
  /\ UNCHANGED <<tI, tX, tSteps, keyVars, pipeVars, winVars>>

\* dataset.unbatch() on the tagged element (line 77)
TagUnbatch ==
  /\ tPc = "tagged"
  /\ tSteps' = Unbatch(tRes.x)
  /\ tPc' = "flat"
  /\ UNCHANGED <<tI, tX, tRes, keyVars, pipeVars, winVars>>

NextTag == TagRecord \/ TagUnbatch

SpecTag == InitTag /\ [][NextTag]_vars

(***************************************************************************)
(* Spec: the pipeline of make_dataset.  tf.data is pull-based: a stage     *)
(* produces an element when the stage after it asks for one.  A parallel   *)
(* map keeps up to Workers elements in flight, asks its input for the next *)
(* one whenever a worker is free, and its workers finish in any order;     *)
(* unbatch holds the rest of the trajectory it is splitting and hands out  *)
(* one step per call; group_by_window is asked by the trajectory map.  All *)
(* stages are active at once.  An element that fails travels on as an      *)
(* error in place of its value and is raised when the consumer gets to it. *)
(***************************************************************************)
MaxTraj == 2

MaxSteps == 2

Workers == 2

\* the record at (1-based) position j of the raw stream, l steps long: obs
\* has one value per step, act one value for the whole trajectory (none
\* when the trajectory has no step)
RawExample(j, l) ==
  [obs |-> Vector([n \in 1..l |-> 10 * j + n]),
   act |-> Vector(IF l = 0 THEN <<>> ELSE <<j>>)]

\* a record that differs from its neighbours: act stored as a scalar, or
\* act one longer than obs (obs is then broadcast if it has one value, and
\* the lengths clash otherwise)
Corrupt(r, kind) ==
  IF kind = "shape"
  THEN [r EXCEPT !.act = Scalar(0)]
  ELSE [r EXCEPT !.act = Vector([n \in 1..(Len(r.obs.val) + 1) |-> 0])]

\* the lengths of the three trajectories of the worked example
ExampleLens == <<2, 1, 3>>

RECURSIVE SumLens(_, _)
SumLens(lens, n) == IF n = 0 THEN 0 ELSE SumLens(lens, n - 1) + lens[n]

\* the streams of up to MaxTraj records and up to MaxSteps steps in all,
\* at most one record of them differing, and the worked example
PipeInputs ==
  {[j \in 1..Len(ExampleLens) |-> RawExample(j, ExampleLens[j])]} \cup
  UNION {{[j \in 1..n |->
             IF j = bad THEN Corrupt(RawExample(j, lens[j]), kind)
             ELSE RawExample(j, lens[j])] :
            lens \in {l \in [1..n -> 0..MaxSteps] : SumLens(l, n) <= MaxSteps},
            bad \in 0..n,
            kind \in {"shape", "lengths"}} :
         n \in 1..MaxTraj}

\* the raw records as TFRecordDataset yields them (line 54)
RawStream(in) == [j \in 1..Len(in) |-> Elem(j - 1, 0, Zero64, in[j], <<>>)]

\* enumerate() numbers its elements from 0 with an int64 counter (line 70)
EnumIndexFromOne(n) == CastInt64(n + 1)

EnumIndex(n) == CastInt64(n)

\* the steps a pass over the data can deliver: step pos of record id
StepIds(in) ==
  UNION {{<<j - 1, p>> : p \in 1..CanonicalLen(in[j])} : j \in 1..Len(in)}

\* type_spec = _get_type_spec(paths[0])
TypeSpec == GetTypeSpec(input[1])

\* the parallel maps and the two unbatch stages
Maps == {"decode", "tag", "traj", "frame"}

Flats == {"unbatch", "unbatch2"}

\* the deterministic= argument of each map stage
DecodeDeterministic == TRUE

TagNonDeterministic == FALSE

TagDeterministic == TRUE

TrajDeterministic == FALSE

FrameDeterministic == ~first

Deterministic(st) ==
  IF st = "decode" THEN DecodeDeterministic
  ELSE IF st = "tag" THEN TagDeterministic
  ELSE IF st = "traj" THEN TrajDeterministic
  ELSE FrameDeterministic

\* the wiring were the flag ignored (always trajectory transforms first)
InputOfFlagBlind(st) ==
  IF st = "decode" THEN "raw"
  ELSE IF st = "tag" THEN "decode"
  ELSE IF st = "traj" THEN "tag"
  ELSE IF st = "unbatch" THEN "traj"
  ELSE IF st = "frame" THEN "unbatch"
  ELSE IF st = "group" THEN "frame"
  ELSE IF st = "unbatch2" THEN "traj"
  ELSE "frame"

\* the stage that stage st asks for its elements, as make_dataset wires
\* them (lines 62-94); "out" is whatever follows line 94
InputOf(st) ==
  IF st = "decode" THEN "raw"
  ELSE IF st = "tag" THEN "decode"
  ELSE IF st = "traj" THEN (IF first THEN "tag" ELSE "group")
  ELSE IF st = "unbatch" THEN (IF first THEN "traj" ELSE "tag")
  ELSE IF st = "frame" THEN "unbatch"
  ELSE IF st = "group" THEN "frame"
  ELSE IF st = "unbatch2" THEN "traj"
  ELSE (IF first THEN "frame" ELSE "unbatch2")

\* the elements of a parallel map that can be handed on: with
\* deterministic=True the oldest one once its worker has finished,
\* otherwise any finished one
Ready(w, deterministic) ==
  IF deterministic
  THEN {n \in 1..Len(w) : n = 1 /\ w[n].done}
  ELSE {n \in 1..Len(w) : w[n].done}

\* what stage src can hand on now: the element, and the state without it
Take(src) ==
  IF src = "raw"
  THEN {[e |-> Head(inS), inS |-> Tail(inS), win |-> win, flat |-> flat] :
          n \in {1} \cap DOMAIN inS}
  ELSE IF src \in Maps
  THEN {[e |-> win[src][n], inS |-> inS,
         win |-> [win EXCEPT ![src] = RemoveAt(@, n)], flat |-> flat] :
          n \in Ready(win[src], Deterministic(src))}
  ELSE IF src \in Flats
  THEN {[e |-> Head(flat[src]), inS |-> inS, win |-> win,
         flat |-> [flat EXCEPT ![src] = Tail(@)]] :
          n \in {1} \cap DOMAIN flat[src]}
  ELSE {}

RECURSIVE Ended(_)
\* stage src has handed on its last element
Ended(src) ==
  IF src = "raw" THEN inS = <<>>
  ELSE IF src = "group" THEN gEnded
  ELSE IF src \in Maps THEN win[src] = <<>> /\ Ended(InputOf(src))
  ELSE flat[src] = <<>> /\ Ended(InputOf(src))

\* an element arrives at a worker: an error is kept as it is
Entering(e) == [e EXCEPT !.done = (e.err # {})]

Finished(e, r) == [e EXCEPT !.x = r.x, !.err = r.err, !.done = TRUE]

Marked(e, mark) == [e EXCEPT !.log = Append(@, mark), !.done = TRUE]

\* unbatch of the element a stage handed on: its steps, or the error
UnbatchOf(e) == IF e.err # {} THEN <<e>> ELSE UnbatchElem(e)

\* _i and _len of a step
FlatTag(e) == <<ToNat(e.x["_i"]), e.x["_len"]>>

\* record, position and _i of a step
FedTag(e) == <<e.id, e.pos, ToNat(e.x["_i"])>>

NoWin == [st \in Maps |-> <<>>]

NoFlat == [st \in Flats |-> <<>>]

InitPipe ==
  /\ first \in BOOLEAN
  /\ input \in PipeInputs
  /\ pc = "run"
  /\ inS = RawStream(input)
  /\ win = NoWin /\ flat = NoFlat
  /\ enum = 0 /\ groups = NoGroups /\ gEnded = FALSE
  /\ flatS = <<>> /\ fedS = <<>>
  /\ trajCount = [j \in 1..Len(input) |-> 0]
  /\ outCount = [s \in StepIds(input) |-> 0]
  /\ lastOut = NoElem
  /\ KeyIdle /\ TagIdle /\ WinIdle

others == <<keyVars, tagVars, winVars, first, input>>

\* map stage st has a free worker and gets the next element of its input
StartElem(st) ==
  /\ pc = "run"
  /\ Len(win[st]) < Workers
  /\ \E t \in Take(InputOf(st)) :
       /\ win' = [t.win EXCEPT ![st] = Append(@, Entering(t.e))]
       /\ inS' = t.inS
       /\ flat' = t.flat

\* a worker of map stage st finishes element n with result r
FinishElem(st, n, r) ==
  /\ pc = "run"
  /\ ~win[st][n].done
  /\ win' = [win EXCEPT ![st][n] = r]

\* lines 62-67: the decode map starts on the next raw record
DecodeStart ==
  /\ StartElem("decode")
  /\ UNCHANGED <<pc, enum, groups, gEnded, ghostVars, others>>

\* lines 63-67: a decode worker finishes _decode_example
DecodeFinish ==
  /\ \E n \in 1..Len(win["decode"]) :
       FinishElem("decode", n,
                  Finished(win["decode"][n],
                           DecodeExample(win["decode"][n].x, TypeSpec)))
  /\ UNCHANGED <<pc, inS, flat, enum, groups, gEnded, ghostVars, others>>

\* line 70: the tagging map asks enumerate() for the next element:
\* enumerate takes the next number and the next decoded record
TagStart ==
  /\ pc = "run"
  /\ Len(win["tag"]) < Workers
  /\ \E t \in Take(InputOf("tag")) :
       /\ win' = [t.win EXCEPT
                    !["tag"] = Append(@, Entering([t.e EXCEPT
                                                     !.i = EnumIndex(enum)]))]
       /\ inS' = t.inS
       /\ flat' = t.flat
  /\ enum' = enum + 1
  /\ UNCHANGED <<pc, groups, gEnded, ghostVars, others>>

\* line 70: a tagging worker finishes _add_traj_metadata(i, x)
TagFinish ==
  /\ \E n \in 1..Len(win["tag"]) :
       FinishElem("tag", n,
                  Finished(win["tag"][n],
                           AddTrajMetadata(win["tag"][n].i, win["tag"][n].x)))
  /\ UNCHANGED <<pc, inS, flat, enum, groups, gEnded, ghostVars, others>>

\* line 74: with traj_transforms_first the trajectory transforms start on
\* the next tagged trajectory
TrajStart ==
  /\ InputOf("traj") # "group"
  /\ StartElem("traj")
  /\ UNCHANGED <<pc, enum, groups, gEnded, ghostVars, others>>

\* lines 74 and 91: a worker finishes the trajectory transforms on one
\* trajectory
TrajFinish ==
  /\ \E n \in 1..Len(win["traj"]) :
       /\ FinishElem("traj", n, Marked(win["traj"][n], "traj"))
       /\ trajCount' = [trajCount EXCEPT ![win["traj"][n].id + 1] = @ + 1]
  /\ UNCHANGED <<pc, inS, flat, enum, groups, gEnded, flatS, fedS, outCount,
                 lastOut, others>>

\* line 77: unbatch has handed out every step of its trajectory and the
\* frame map asks for more: unbatch takes the next trajectory
UnbatchPull ==
  /\ pc = "run"
  /\ Len(win["frame"]) < Workers
  /\ flat["unbatch"] = <<>>
  /\ \E t \in Take(InputOf("unbatch")) :
       /\ flat' = [t.flat EXCEPT !["unbatch"] = UnbatchOf(t.e)]
       /\ win' = t.win
       /\ inS' = t.inS
  /\ UNCHANGED <<pc, enum, groups, gEnded, ghostVars, others>>

\* line 80: the frame transforms start on the next step of unbatch
FrameStart ==
  /\ StartElem("frame")
  /\ flatS' = IF Head(flat["unbatch"]).err = {}
              THEN Append(flatS, FlatTag(Head(flat["unbatch"])))
              ELSE flatS
  /\ UNCHANGED <<pc, enum, groups, gEnded, fedS, trajCount, outCount, lastOut,
                 others>>

\* line 80: a worker finishes the frame transforms on one step
FrameFinish ==
  /\ \E n \in 1..Len(win["frame"]) :
       FinishElem("frame", n, Marked(win["frame"][n], "frame"))
  /\ UNCHANGED <<pc, inS, flat, enum, groups, gEnded, ghostVars, others>>

\* lines 84-91: the trajectory map has a free worker and asks
\* group_by_window, which takes the next step of the frame map; a window
\* that is full goes to the worker
GroupFeed ==
  /\ pc = "run"
  /\ InputOf("traj") = "group"
  /\ Len(win["traj"]) < Workers
  /\ \E t \in Take(InputOf("group")) :
       /\ inS' = t.inS
       /\ flat' = t.flat
       /\ IF t.e.err # {}
          THEN /\ win' = [t.win EXCEPT !["traj"] = Append(@, Entering(t.e))]
               /\ UNCHANGED <<groups, fedS>>
          ELSE /\ fedS' = Append(fedS, FedTag(t.e))
               /\ \E r \in {GroupAdd(groups, t.e)} :
                    IF r.err # {}
                    THEN /\ win' = [t.win EXCEPT
                                      !["traj"] = Append(@, [t.e EXCEPT
                                                               !.err = r.err,
                                                               !.done = TRUE])]
                         /\ UNCHANGED groups
                    ELSE /\ win' = [t.win EXCEPT !["traj"] = @ \o r.out]
                         /\ groups' = r.groups
  /\ UNCHANGED <<pc, enum, gEnded, flatS, trajCount, outCount, lastOut, others>>

\* lines 84-91: the input of group_by_window has ended: a window still
\* open is reduced as it stands for a free worker of the trajectory map;
\* when none is left the output ends
GroupEnd ==
  /\ pc = "run"
  /\ InputOf("traj") = "group"
  /\ Ended(InputOf("group"))
  /\ ~gEnded
  /\ IF DOMAIN groups # {}
     THEN /\ Len(win["traj"]) < Workers
          /\ \E k \in DOMAIN groups :
               /\ groups' = GroupFlush(groups, k).groups
               /\ win' = [win EXCEPT !["traj"] = @ \o GroupFlush(groups, k).out]
          /\ gEnded' = gEnded
     ELSE gEnded' = TRUE /\ UNCHANGED <<groups, win>>
  /\ UNCHANGED <<pc, inS, flat, enum, ghostVars, others>>

\* line 94: the second unbatch has handed out every step of its trajectory
\* and is asked for more: it takes the next transformed trajectory
Unbatch2Pull ==
  /\ pc = "run"
  /\ InputOf("out") = "unbatch2"
  /\ flat["unbatch2"] = <<>>
  /\ \E t \in Take(InputOf("unbatch2")) :
       /\ flat' = [t.flat EXCEPT !["unbatch2"] = UnbatchOf(t.e)]
       /\ win' = t.win
       /\ inS' = t.inS
  /\ UNCHANGED <<pc, enum, groups, gEnded, ghostVars, others>>

\* lines 96-106: the next step leaves for shuffle, repeat, batch and
\* prefetch; an error is raised to the consumer and ends the iteration
Deliver ==
  /\ pc = "run"
  /\ \E t \in Take(InputOf("out")) :
       IF t.e.err # {}
       THEN /\ pc' = "failed"
            /\ inS' = <<>> /\ win' = NoWin /\ flat' = NoFlat
            /\ UNCHANGED <<outCount, lastOut>>
       ELSE /\ outCount' = [outCount EXCEPT ![<<t.e.id, t.e.pos>>] = @ + 1]
            /\ lastOut' = t.e
            /\ inS' = t.inS /\ win' = t.win /\ flat' = t.flat
            /\ pc' = pc
  /\ UNCHANGED <<enum, groups, gEnded, flatS, fedS, trajCount, others>>

\* one pass over the data has ended without an error
EpochDone == pc = "run" /\ Ended(InputOf("out"))

\* line 100: repeat() at the end of a pass: every stage above it is
\* iterated anew, enumerate() counting from 0 again; a pass that yielded
\* no element ends the stream
RepeatEpoch ==
  /\ EpochDone
  /\ IF lastOut = NoElem
     THEN /\ pc' = "ended"
          /\ UNCHANGED <<inS, enum, groups, gEnded, ghostVars>>
     ELSE /\ pc' = pc
          /\ inS' = RawStream(input)
          /\ enum' = 0 /\ groups' = NoGroups /\ gEnded' = FALSE
          /\ flatS' = <<>> /\ fedS' = <<>>
          /\ trajCount' = [j \in 1..Len(input) |-> 0]
          /\ outCount' = [s \in StepIds(input) |-> 0]
          /\ lastOut' = NoElem
  /\ UNCHANGED <<win, flat, others>>

Next ==
  \/ DecodeStart \/ DecodeFinish
  \/ TagStart \/ TagFinish
  \/ TrajStart \/ TrajFinish
  \/ UnbatchPull
  \/ FrameStart \/ FrameFinish
  \/ GroupFeed \/ GroupEnd
  \/ Unbatch2Pull
  \/ Deliver \/ RepeatEpoch

Spec == InitPipe /\ [][Next]_vars

(***************************************************************************)
(* SpecWindow: group_by_window on its own.  The steps of up to WinTraj     *)
(* tagged trajectories arrive in any interleaving that keeps the steps of  *)
(* each trajectory in order.  The primitive does not know how many steps   *)
(* are to come: its input may end at any point.                            *)
(***************************************************************************)
WinTraj == 3

MaxLen == 2

\* the steps of the record at position j, l steps long, after enumerate,
\* _add_traj_metadata and unbatch
WinSteps(j, l) ==
  UnbatchElem(Elem(j - 1, 0, EnumIndex(j - 1),
                   AddTrajMetadata(EnumIndex(j - 1), RawExample(j, l)).x, <<>>))

InitWindow ==
  /\ \E n \in 1..WinTraj : \E lens \in [1..n -> 1..MaxLen] :
       wSrc = [j \in 1..n |-> WinSteps(j, lens[j])]
  /\ wPend = wSrc
  /\ wGroups = NoGroups /\ wOut = <<>>
  /\ wPc = "feed"
  /\ KeyIdle /\ TagIdle /\ PipeIdle

\* the next step of some trajectory reaches group_by_window
WinFeed ==
  /\ wPc = "feed"
  /\ \E j \in 1..Len(wPend) :
       /\ wPend[j] # <<>>
       /\ wPend' = [wPend EXCEPT ![j] = Tail(@)]
       /\ \E r \in {GroupAdd(wGroups, Head(wPend[j]))} :
            IF r.err # {}
            THEN wPc' = "error" /\ UNCHANGED <<wGroups, wOut>>
            ELSE /\ wGroups' = r.groups
                 /\ wOut' = wOut \o r.out
                 /\ wPc' = wPc
  /\ UNCHANGED <<wSrc, keyVars, tagVars, pipeVars>>

\* the input of group_by_window ends
WinStop ==
  /\ wPc = "feed"
  /\ wPc' = "flush"
  /\ UNCHANGED <<wSrc, wPend, wGroups, wOut, keyVars, tagVars, pipeVars>>

\* after the end of the input every window still open is reduced as it
\* stands, one after the other in no particular order; then the output ends
WinEnd ==
  /\ wPc = "flush"
  /\ IF DOMAIN wGroups # {}
     THEN \E k \in DOMAIN wGroups :
            /\ wGroups' = GroupFlush(wGroups, k).groups
            /\ wOut' = wOut \o GroupFlush(wGroups, k).out
            /\ wPc' = wPc
     ELSE wPc' = "done" /\ UNCHANGED <<wGroups, wOut>>
  /\ UNCHANGED <<wSrc, wPend, keyVars, tagVars, pipeVars>>

NextWindow == WinFeed \/ WinStop \/ WinEnd

SpecWindow == InitWindow /\ [][NextWindow]_vars

(***************************************************************************)
(* Properties                                                              *)
(***************************************************************************)
\* 0 <= i < 2^51
InIdxRange(i) == ~IsNeg64(i) /\ Lt64(i, TwoPow64(TRAJ_IDX_ENCODING_BITS))

\* 2^12: the lengths that fit beside a 51-bit index in a signed 64-bit key
LenLimit == 2 ^ (Int64Bits - 1 - TRAJ_IDX_ENCODING_BITS)

\* C1: for every index 0 <= idx < 2^51 and length 0 <= len < 2^12, the key
\* len * 2^51 + idx gives back idx as key % 2^51 and len as key // 2^51, so
\* both key assertions pass, and the regrouper's window size, recomputed from
\* the step's _len and _i, is len.
C1_KeyRoundTrip ==
  (kPc \in {"tagged", "rejected", "windowed"} /\ InIdxRange(kI) /\ kLen < LenLimit) =>
    /\ FloorMod64(kKey, TRAJ_IDX_ENCODING_BITS) = kI
    /\ FloorDiv64(kKey, TRAJ_IDX_ENCODING_BITS) = CastInt64(kLen)
    /\ kErr = {}
    /\ kPc # "rejected"
    /\ kSteps = kLen
    /\ (kPc = "windowed" => kWin = CastInt64(kLen))

C1_Witness ==
  /\ kPc = "windowed"
  /\ kLen = LenLimit - 1
  /\ kI = Sub64(TwoPow64(TRAJ_IDX_ENCODING_BITS), CastInt64(1))
  /\ kWin = CastInt64(LenLimit - 1)

\* C2: an index >= 2^51 or a length >= 2^12 fails one of the two key
\* assertions in signed 64-bit arithmetic (an index >= 2^51 fails the check
\* of key % 2^51, a length >= 2^12 the check of key // 2^51): the trajectory
\* is rejected and none of its steps is emitted.
C2_OverflowRejected ==
  (kPc \in {"tagged", "rejected", "windowed"}
   /\ (~InIdxRange(kI) \/ kLen >= LenLimit)) =>
    /\ kErr \cap {"key_mod", "key_div"} # {}
    /\ kPc = "rejected"
    /\ kSteps = 0
    /\ (~InIdxRange(kI) => "key_mod" \in kErr)
    /\ (kLen >= LenLimit => "key_div" \in kErr)

C2_Witness ==
  /\ kPc = "rejected"
  /\ kI = TwoPow64(TRAJ_IDX_ENCODING_BITS)
  /\ kLen = LenLimit
  /\ kErr = {"key_mod", "key_div"}
  /\ kSteps = 0

\* the fields of x with a leading dimension, and their lengths
NonScalar(x) == {k \in DOMAIN x : x[k].rank > 0}

LeadingLens(x) == {Len(x[k].val) : k \in NonScalar(x)}

\* some non-scalar field is neither of length 1 nor of the maximum length
Mismatch(x) ==
  \E l \in LeadingLens(x) : l # 1 /\ \E m \in LeadingLens(x) : m > l

\* x gets to the run-time assertions: it has a length and no reserved name
ReachesChecks(x) ==
  NonScalar(x) # {} /\ "_i" \notin DOMAIN x /\ "_len" \notin DOMAIN x

\* C5: a record in which some non-scalar field has a leading length that is
\* neither 1 nor the maximum over the non-scalar fields is rejected and no
\* step of it is emitted; the length assertion fails for exactly these
\* records; a record whose non-scalar fields all have length 1 or the
\* maximum is accepted (its index being in range).
C5_LengthConsistency ==
  (tPc \in {"tagged", "rejected", "flat"}) =>
    /\ Mismatch(tX) => (tPc = "rejected" /\ tRes.x = NoDict /\ tSteps = <<>>)
    /\ ReachesChecks(tX) => (("len_eq" \in tRes.err) <=> Mismatch(tX))
    /\ (ReachesChecks(tX) /\ ~Mismatch(tX) /\ InIdxRange(tI)) =>
          (tPc \in {"tagged", "flat"} /\ tRes.err = {})

C5_Witness ==
  /\ tPc = "rejected"
  /\ DOMAIN tX = {"obs", "act"}
  /\ tX["obs"].rank = 1 /\ Len(tX["obs"].val) = 3
  /\ tX["act"].rank = 1 /\ Len(tX["act"].val) = 2
  /\ tRes.err = {"len_eq"}

\* C6: for an accepted record the canonical length is the largest leading
\* length of its non-scalar fields; after tagging every field has that
\* length, a scalar or length-1 field holds its one value at every step, a
\* field of the canonical length is unchanged, and unbatching gives that
\* many steps, step n holding position n of every field.
C6_Broadcast ==
  (tPc \in {"tagged", "flat"}) =>
    \E m \in LeadingLens(tX) :
      /\ \A l \in LeadingLens(tX) : l <= m
      /\ DOMAIN tRes.x = DOMAIN tX \cup {"_i", "_len"}
      /\ \A k \in DOMAIN tRes.x : Len(tRes.x[k].val) = m
      /\ \A k \in DOMAIN tX :
           /\ (tX[k].rank = 0 \/ Len(tX[k].val) = 1) =>
                 \A n \in 1..m : tRes.x[k].val[n] = tX[k].val[1]
           /\ (tX[k].rank > 0 /\ Len(tX[k].val) = m) =>
                 tRes.x[k].val = tX[k].val
      /\ \A n \in 1..m : tRes.x["_i"].val[n] = tI /\ tRes.x["_len"].val[n] = m
      /\ (tPc = "flat") =>
           /\ Len(tSteps) = m
           /\ \A n \in 1..m : \A k \in DOMAIN tX :
                tSteps[n][k] =
                  IF tX[k].rank = 0 \/ Len(tX[k].val) = 1
                  THEN tX[k].val[1] ELSE tX[k].val[n]

C6_Witness ==
  /\ tPc = "flat"
  /\ DOMAIN tX = {"obs", "act"}
  /\ tX["obs"] = Vector(<<1, 2, 1>>)
  /\ tX["act"] = Scalar(2)
  /\ Len(tSteps) = 3
  /\ \A n \in 1..3 : tSteps[n]["act"] = 2

\* C7: a record that already has a field _i or _len is rejected before any
\* tagged step is produced: no tagged dict comes out (so the field is never
\* overwritten) and, when the record has a length at all, the error is the
\* reserved-field assertion.
C7_ReservedRejected ==
  (tPc \in {"tagged", "rejected", "flat"}
   /\ ("_i" \in DOMAIN tX \/ "_len" \in DOMAIN tX)) =>
    /\ tPc = "rejected"
    /\ tRes.x = NoDict
    /\ tSteps = <<>>
    /\ NonScalar(tX) # {} =>
         tRes.err = (IF "_i" \in DOMAIN tX THEN {"reserved_i"} ELSE {"reserved_len"})

C7_Witness ==
  /\ tPc = "rejected"
  /\ "_len" \in DOMAIN tX
  /\ NonScalar(tX) = DOMAIN tX
  /\ ~Mismatch(tX)
  /\ tRes.err = {"reserved_len"}

IsPrefix(a, b) == Len(a) <= Len(b) /\ \A p \in 1..Len(a) : a[p] = b[p]

\* the step dicts of source trajectory j of SpecWindow, in order
WinSource(j) == [n \in 1..Len(wSrc[j]) |-> wSrc[j][n].x]

\* the positions of the output at which a trajectory of source j was emitted
WinEmitted(j) == {m \in 1..Len(wOut) : wOut[m].id = j - 1}

\* the number of steps of source trajectory j that reached the regrouper
Fed(j) == Len(wSrc[j]) - Len(wPend[j])

\* every step of every source trajectory has reached the regrouper
AllArrived == \A j \in 1..Len(wSrc) : wPend[j] = <<>>

\* C3: tag, flatten, regroup is a round trip.  As long as no step is lost
\* (the input has not ended, or has ended after the last step), whatever
\* the interleaving of the trajectories: every emitted trajectory is the
\* whole of one source trajectory, its steps in their order with their
\* fields and _len; no source trajectory is emitted twice; a source
\* trajectory is emitted as soon as its last step has arrived; and no
\* window is open once every step has arrived.
C3_RoundTrip ==
  (wPc = "feed" \/ (wPc \in {"flush", "done"} /\ AllArrived)) =>
    /\ AllArrived => wGroups = NoGroups
    /\ \A m \in 1..Len(wOut) :
         \E j \in 1..Len(wSrc) :
           /\ wOut[m].id = j - 1
           /\ Unbatch(wOut[m].x) = WinSource(j)
           /\ \A n \in 1..Len(wSrc[j]) :
                Unbatch(wOut[m].x)[n]["_len"] = Len(wSrc[j])
    /\ \A j \in 1..Len(wSrc) :
         /\ Cardinality(WinEmitted(j)) <= 1
         /\ wPend[j] = <<>> => Cardinality(WinEmitted(j)) = 1

\* two trajectories of the same length were interleaved: the second one is
\* out, the first one, begun earlier or meanwhile, is still open
C3_Witness ==
  /\ wPc = "feed"
  /\ Len(wSrc) >= 2
  /\ Len(wSrc[1]) = 2 /\ Len(wSrc[2]) = 2
  /\ Fed(1) = 1
  /\ Len(wOut) = 1 /\ wOut[1].id = 1
  /\ Unbatch(wOut[1].x) = WinSource(2)

\* the length of the record at position j of the input: the largest
\* leading length of its fields
InLen(j) ==
  CHOOSE l \in LeadingLens(input[j]) : \A m \in LeadingLens(input[j]) : m <= l

RECURSIVE FlatLayout(_)
\* _i and _len of the steps of the first j records, in stream order
FlatLayout(j) ==
  IF j = 0 THEN <<>>
  ELSE FlatLayout(j - 1) \o [p \in 1..InLen(j) |-> <<j - 1, InLen(j)>>]

RECURSIVE FedLayout(_)
\* record, position and _i of the steps of the first j records, in order
FedLayout(j) ==
  IF j = 0 THEN <<>>
  ELSE FedLayout(j - 1) \o [p \in 1..InLen(j) |-> <<j - 1, p, j - 1>>]

\* every record of the input is well-formed: its fields have the ranks of
\* the first record's and their lengths agree
Clean ==
  \A j \in 1..Len(input) :
    /\ ~Mismatch(input[j])
    /\ \A k \in DOMAIN input[1] : input[j][k].rank = input[1][k].rank

\* C4: the layout of the tagged stream, step by step as the steps leave the
\* unbatch of line 77.  Every tagged step carries the zero-based index of
\* its record and that record's length; the steps of one record are
\* contiguous, and as many as its length before another record's follow;
\* when nothing reorders the tagged trajectories before the unbatch (the
\* flag is false) the steps so far are the beginning of: record 0's steps,
\* then record 1's, and so on; and a whole pass yields exactly that, the
\* sum of the lengths in all.
C4_TaggedLayout ==
  /\ \A p \in 1..Len(flatS) :
       /\ flatS[p][1] \in 0..(Len(input) - 1)
       /\ flatS[p][2] = InLen(flatS[p][1] + 1)
  /\ \A j \in 1..Len(input) :
       LET at == {p \in 1..Len(flatS) : flatS[p][1] = j - 1}
       IN  /\ Cardinality(at) <= InLen(j)
           /\ EpochDone => Cardinality(at) = InLen(j)
           /\ \A p \in at : \A q \in at : \A r \in p..q : r \in at
           /\ \A p \in at :
                (p < Len(flatS) /\ p + 1 \notin at) => Cardinality(at) = InLen(j)
  /\ ~first =>
       \A p \in 1..Len(flatS) : \A q \in p..Len(flatS) : flatS[p][1] <= flatS[q][1]
  /\ (~first /\ Clean) => IsPrefix(flatS, FlatLayout(Len(input)))
  /\ (~first /\ EpochDone) => flatS = FlatLayout(Len(input))

C4_Witness ==
  /\ EpochDone
  /\ ~first
  /\ flatS = <<<<0, 2>>, <<0, 2>>, <<1, 1>>, <<2, 3>>, <<2, 3>>, <<2, 3>>>>

\* (record, position) of p comes before that of q
FedBefore(p, q) == p[1] < q[1] \/ (p[1] = q[1] /\ p[2] < q[2])

\* C9: the decode map and the tagging map, and with the flag false the
\* frame map, hand their results on in input order whatever the order in
\* which their workers finish: records are in stream order in the decode
\* and tagging maps, record number j gets index j, and the steps that reach
\* the regrouper are in record order and, within a record, in time order,
\* each with the index of its record; for well-formed input they are the
\* beginning of: record 0's steps, then record 1's, and so on, and a whole
\* pass feeds the regrouper exactly that.
C9_OrderPreserved ==
  /\ pc = "run" =>
       \A st \in {"decode", "tag"} :
         \A m \in 1..Len(win[st]) : \A q \in (m + 1)..Len(win[st]) :
           win[st][m].id < win[st][q].id
  /\ pc = "run" =>
       \A m \in 1..Len(win["tag"]) :
         win["tag"][m].i = CastInt64(win["tag"][m].id)
  /\ \A p \in 1..Len(fedS) :
       /\ fedS[p][3] = fedS[p][1]
       /\ \A q \in (p + 1)..Len(fedS) : FedBefore(fedS[p], fedS[q])
  /\ (~first /\ Clean) => IsPrefix(fedS, FedLayout(Len(input)))
  /\ (~first /\ EpochDone) => fedS = FedLayout(Len(input))

\* a frame worker has finished a later step before an earlier one, and the
\* steps handed to the regrouper so far are in order
C9_Witness ==
  /\ ~first
  /\ pc = "run"
  /\ Len(win["frame"]) >= 2
  /\ ~win["frame"][1].done /\ win["frame"][2].done
  /\ win["frame"][1].id # win["frame"][2].id
  /\ Len(fedS) >= 1

\* the stages a delivered step has been through, in order
FirstLog == <<"traj", "flat", "frame">>

RegroupLog == <<"flat", "frame", "group", "traj", "flat">>

\* C8 as stated: for either value of the flag, every trajectory has passed
\* the trajectory transforms exactly once when a pass over the data ends.
C8_EveryTrajectoryOnce ==
  EpochDone => \A j \in 1..Len(input) : trajCount[j] = 1

\* C8, what the pipeline does: every step passes the frame transforms
\* exactly once and is delivered once; with the flag true a step has been
\* through trajectory transforms, unbatch, frame transforms, in this order,
\* nothing is regrouped, and every trajectory passes the trajectory
\* transforms exactly once; with the flag false a step has been through
\* unbatch, frame transforms, regrouping, trajectory transforms, unbatch,
\* the regrouping leaves no window open at the end of a pass, and a
\* trajectory passes the trajectory transforms exactly once if it has at
\* least one step and never if it has none.
C8_TransformOrder ==
  /\ lastOut # NoElem =>
       lastOut.log = (IF first THEN FirstLog ELSE RegroupLog)
  /\ \A s \in DOMAIN outCount : outCount[s] <= 1
  /\ \A j \in 1..Len(input) : trajCount[j] <= 1
  /\ (first /\ pc = "run") =>
       (groups = NoGroups /\ fedS = <<>> /\ flat["unbatch2"] = <<>>)
  /\ EpochDone =>
       /\ groups = NoGroups
       /\ \A s \in DOMAIN outCount : outCount[s] = 1
       /\ \A j \in 1..Len(input) :
            trajCount[j] = (IF first \/ InLen(j) > 0 THEN 1 ELSE 0)

C8_Witness ==
  /\ EpochDone
  /\ ~first
  /\ \E j \in 1..Len(input) : InLen(j) = 0 /\ trajCount[j] = 0
  /\ \E j \in 1..Len(input) : InLen(j) > 0 /\ trajCount[j] = 1
  /\ lastOut.log = RegroupLog

====
